---- MODULE Spec2Model ----
(***************************************************************************)
(* Model of streamlit_app.py: a Streamlit script that is re-executed from  *)
(* top to bottom on every interaction.  Process-wide state is the          *)
(* st.cache_resource caches and the environment; session state is          *)
(* st.session_state.chat_history.  Strings that the program inspects       *)
(* (the query, the error labels) are sequences of one-character strings;   *)
(* list positions are 1-based here where Python's are 0-based.             *)
(***************************************************************************)
EXTENDS Integers, Sequences, FiniteSets, TLC

\* ---------------------------------------------------------------- bounds
MaxCorpus == 3
MaxK == 4
MaxRuns == 3

\* k=5 at the only call site of get_top_k_chunks
DefaultK == 5

VARIABLES
  GOOGLE_API_KEY,   \* os.getenv("GOOGLE_API_KEY") of this process
  files,            \* embeddings.json / chunks.json / model weights on disk
  data_cache,       \* st.cache_resource entry of load_data
  model_cache,      \* st.cache_resource entry of load_model
  embeddings,       \* module global assigned at line 28
  chunks,           \* module global assigned at line 28
  embedder,         \* module global assigned at line 35
  has_history,      \* "chat_history" in st.session_state
  chat_history,     \* st.session_state.chat_history
  call,             \* arguments of the latest get_top_k_chunks call
  top_k_idx,        \* top_k_idx of the latest get_top_k_chunks call
  top_chunks,       \* value returned by the latest get_top_k_chunks call
  lastRun,          \* what the latest script run did
  counts            \* how often each external effect has happened

vars == <<GOOGLE_API_KEY, files, data_cache, model_cache, embeddings, chunks,
          embedder, has_history, chat_history, call, top_k_idx, top_chunks,
          lastRun, counts>>

\* ------------------------------------------------------------- sequences
Min(a, b) == IF a <= b THEN a ELSE b

Reverse(s) == [i \in 1..Len(s) |-> s[Len(s) + 1 - i]]

Last(s) == s[Len(s)]

IsPrefix(s, t) == Len(s) <= Len(t) /\ SubSeq(t, 1, Len(s)) = s

\* sub occurs in s as a contiguous substring
Contains(s, sub) ==
  \E i \in 0..(Len(s) - Len(sub)) : SubSeq(s, i + 1, i + Len(sub)) = sub

\* -------------------------------------------------- cosine_similarity
Dot(a, b) == LET n == Len(a)
                 S[i \in 0..n] == IF i = 0 THEN 0 ELSE S[i - 1] + a[i] * b[i]
             IN S[n]

\* A score is the float dot / sqrt(den), or NaN.  den is the squared product
\* of the two norms, so no square root has to be taken to compare scores.
NaN == [nan |-> TRUE, dot |-> 0, den |-> 0]

cosine_similarity(a, b) ==
  LET d == Dot(a, b)
      n2 == Dot(a, a) * Dot(b, b)
  IN IF n2 = 0 THEN NaN      \* 0 / 0.0 in numpy: nan and a RuntimeWarning
     ELSE [nan |-> FALSE, dot |-> d, den |-> n2]

SignedSq(x) == IF x < 0 THEN -(x * x) ELSE x * x

\* s <= t as IEEE floats: false as soon as one side is NaN
FloatLeq(s, t) ==
  /\ ~s.nan
  /\ ~t.nan
  /\ SignedSq(s.dot) * t.den <= SignedSq(t.dot) * s.den

FloatLess(s, t) == FloatLeq(s, t) /\ ~FloatLeq(t, s)

\* the order numpy sorts by: ascending, NaN after every number
SortLeq(s, t) == t.nan \/ FloatLeq(s, t)

\* ---------------------------------------------------- get_top_k_chunks
Perms(n) == {p \in [1..n -> 1..n] : \A i, j \in 1..n : p[i] = p[j] => i = j}

\* np.argsort(scores): the default sort is not stable, so every permutation
\* that puts the scores in sorted order is a possible result
ArgsortResults(scores) ==
  {p \in Perms(Len(scores)) :
     \A i \in 1..(Len(scores) - 1) : SortLeq(scores[p[i]], scores[p[i + 1]])}

\* p[-k:]
LastK_DropsOne(p, k) ==
  IF k = 0 \/ k >= Len(p) THEN p ELSE SubSeq(p, Len(p) - k + 2, Len(p))

LastK(p, k) ==
  IF k = 0 \/ k >= Len(p) THEN p ELSE SubSeq(p, Len(p) - k + 1, Len(p))

\* [-k:][::-1]
TopKIdx_NoReverse(p, k) == LastK(p, k)

TopKIdx(p, k) == Reverse(LastK(p, k))

\* chunks[i] if isinstance(chunks[i], str) else chunks[i].get("text", "")
ChunkText(c) ==
  IF c.kind = "str" THEN c.text
  ELSE IF c.has THEN c.text ELSE ""

Scores(query_embedding) ==
  [i \in 1..Len(embeddings) |-> cosine_similarity(query_embedding, embeddings[i])]

\* the list of (chunk text, score) pairs built at line 46 from top_k_idx
Pairs(idx, scores) ==
  [j \in 1..Len(idx) |-> [chunk |-> ChunkText(chunks[idx[j]]), score |-> scores[idx[j]]]]

\* all values get_top_k_chunks(query_embedding, k) can return, each with
\* the top_k_idx it was built from
get_top_k_chunks(query_embedding, k) ==
  LET scores == Scores(query_embedding)
  IN {[idx |-> TopKIdx(p, k), pairs |-> Pairs(TopKIdx(p, k), scores)] :
        p \in ArgsortResults(scores)}

\* ------------------------------------------------------------- strings
\* A Python string is a sequence of pieces; a piece is one character or a
\* literal the program never looks inside.
IsSpace(c) == c = " "

\* str.strip()
RECURSIVE LStrip(_)
LStrip(s) == IF s # <<>> /\ IsSpace(s[1]) THEN LStrip(Tail(s)) ELSE s

Strip_Identity(s) == s

Strip(s) == Reverse(LStrip(Reverse(LStrip(s))))

\* str(n) for n >= 0, as used by the f-string at line 63
RECURSIVE Digits(_)
Digits(n) ==
  LET d == <<"0", "1", "2", "3", "4", "5", "6", "7", "8", "9">>[(n % 10) + 1]
  IN IF n < 10 THEN <<d>> ELSE Digits(n \div 10) \o <<d>>

\* ---------------------------------------------------------------- JSON
JStr(s) == [t |-> "str", s |-> s]
JObj(f) == [t |-> "obj", f |-> f]
JArr(a) == [t |-> "arr", a |-> a]
JNull == [t |-> "null"]

Key(name) == [isidx |-> FALSE, name |-> name, idx |-> 0]
Idx(i) == [isidx |-> TRUE, name |-> "", idx |-> i]

Raised == [raised |-> TRUE, val |-> JNull]
Value(v) == [raised |-> FALSE, val |-> v]

\* j[key] in Python: KeyError, IndexError and TypeError are all "raised"
Subscript(j, key) ==
  CASE j.t = "obj" ->
         IF ~key.isidx /\ key.name \in DOMAIN j.f THEN Value(j.f[key.name]) ELSE Raised
    [] j.t = "arr" ->
         IF key.isidx /\ key.idx < Len(j.a) THEN Value(j.a[key.idx + 1]) ELSE Raised
    [] j.t = "str" ->
         IF key.isidx /\ key.idx < Len(j.s) THEN Value(JStr(<<j.s[key.idx + 1]>>)) ELSE Raised
    [] OTHER -> Raised

RECURSIVE Walk(_, _)
Walk(j, path) ==
  IF path = <<>> THEN Value(j)
  ELSE LET r == Subscript(j, Head(path))
       IN IF r.raised THEN Raised ELSE Walk(r.val, Tail(path))

\* result["candidates"][0]["content"]["parts"][0]["text"]
TextPath == <<Key("candidates"), Idx(0), Key("content"), Key("parts"), Idx(0), Key("text")>>

GeneratedText == <<"T">>

Part(p) == JObj([content |-> JObj([parts |-> JArr(p)])])

\* response bodies the service can send, by name
Body(name) ==
  CASE name = "well_formed" ->
         JObj([candidates |-> JArr(<<Part(<<JObj([text |-> JStr(GeneratedText)])>>)>>)])
    [] name = "no_candidates" -> JObj([error |-> JStr(<<"e">>)])
    [] name = "empty_candidates" -> JObj([candidates |-> JArr(<<>>)])
    [] name = "no_content" -> JObj([candidates |-> JArr(<<JObj([finishReason |-> JStr(<<"S">>)])>>)])
    [] name = "no_parts" -> JObj([candidates |-> JArr(<<JObj([content |-> JObj([role |-> JStr(<<"m">>)])])>>)])
    [] name = "empty_parts" -> JObj([candidates |-> JArr(<<Part(<<>>)>>)])
    [] name = "no_text" -> JObj([candidates |-> JArr(<<Part(<<JObj([inlineData |-> JNull])>>)>>)])
    [] name = "candidates_is_string" -> JObj([candidates |-> JStr(<<"x">>)])
    [] name = "null" -> JNull

MalformedBodies == {"no_candidates", "empty_candidates", "no_content", "no_parts",
                    "empty_parts", "no_text", "candidates_is_string", "null"}

\* "not_json" is a body response.json() cannot parse
BodyNames == {"well_formed", "not_json"} \cup MalformedBodies

ErrorStatuses == {404, 500}

\* what requests.post(..., timeout=30) can do
HttpOutcomes ==
  {[kind |-> "response", status |-> 200, body |-> b] : b \in BodyNames}
    \cup {[kind |-> "response", status |-> s, body |-> "not_json"] : s \in ErrorStatuses}
    \cup {[kind |-> k, status |-> 0, body |-> "none"] : k \in {"timeout", "connection_error"}}

NoOutcome == [kind |-> "none", status |-> 0, body |-> "none"]

\* ---------------------------------------------------------- ask_gemini
FormatError == <<"[Error: Unexpected Gemini API response format]">>

StatusError_NoCode(status) == <<"[Error: Gemini API returned ">> \o <<"]">>

StatusError(status) == <<"[Error: Gemini API returned ">> \o Digits(status) \o <<"]">>

\* the try/except around the nested lookup, lines 58-61
ExtractText_Unguarded(result) ==
  LET r == Walk(result, TextPath)
  IN IF r.raised THEN [raised |-> TRUE, text |-> <<>>]
     ELSE [raised |-> FALSE, text |-> r.val.s]

ExtractText(result) ==
  LET r == Walk(result, TextPath)
  IN IF r.raised THEN [raised |-> FALSE, text |-> FormatError]
     ELSE [raised |-> FALSE, text |-> r.val.s]

\* ask_gemini(prompt) when requests.post behaves as outcome says; the prompt
\* is opaque to the service model, so the result depends on outcome alone
ask_gemini(outcome) ==
  IF outcome.kind # "response" THEN [raised |-> TRUE, text |-> <<>>]        \* line 55 raises
  ELSE IF outcome.status = 200
       THEN IF outcome.body = "not_json" THEN [raised |-> TRUE, text |-> <<>>]  \* line 57 raises
            ELSE ExtractText(Body(outcome.body))
       ELSE [raised |-> FALSE, text |-> StatusError(outcome.status)]

\* ------------------------------------------------------ input domains
Zero == <<0, 0>>

Vectors == {Zero, <<1, 0>>, <<0, 1>>, <<1, 1>>, <<-1, 1>>, <<2, 1>>}

Labels == <<"A", "B", "C", "D", "E", "F">>

\* a chunk is a JSON string, or a JSON object with or without a "text" field
StrChunk(i) == [kind |-> "str", has |-> FALSE, text |-> Labels[i]]
DictChunk(i) == [kind |-> "dict", has |-> TRUE, text |-> Labels[i]]
BareDictChunk == [kind |-> "dict", has |-> FALSE, text |-> ""]

StrChunks(n) == [i \in 1..n |-> StrChunk(i)]

\* the chunk lists of length n that are tried: all strings, all objects, and
\* a mix of the three forms
ChunkLists(n) ==
  {StrChunks(n),
   [i \in 1..n |-> DictChunk(i)],
   [i \in 1..n |-> CASE i % 3 = 1 -> BareDictChunk [] i % 3 = 2 -> StrChunk(i) [] OTHER -> DictChunk(i)]}

\* corpora whose embeddings and chunks are aligned (same length)
Corpora ==
  UNION {{[embeddings |-> e, chunks |-> c] : e \in [1..n -> Vectors], c \in ChunkLists(n)} :
         n \in 0..MaxCorpus}

\* the query texts the user types
Queries == {<<>>, <<" ">>, <<"a">>, <<" ", "b", " ">>}

\* embedder.encode([query])[0]: a fixed function of the text
Encode(query) ==
  LET Count(ch) == Cardinality({i \in 1..Len(query) : query[i] = ch})
  IN <<Count("a"), Count("b")>>

KeyValues == {[set |-> FALSE, val |-> <<>>],     \* variable absent: None
              [set |-> TRUE, val |-> <<>>],      \* variable set to ""
              [set |-> TRUE, val |-> <<"K">>]}

\* the artifacts the app is deployed with
ExampleEmbeddings == <<<<1, 0>>, <<0, 1>>, <<1, 1>>>>

DeployedFiles ==
  {[data_ok |-> ok, model_ok |-> m, embeddings |-> e,
    chunks |-> IF w THEN JObj([chunks |-> JArr(StrChunks(Len(e)))]) ELSE JArr(StrChunks(Len(e)))] :
     ok \in BOOLEAN, m \in BOOLEAN, w \in BOOLEAN,
     e \in {<<>>, ExampleEmbeddings, <<<<1, 0>>, <<1, 0>>>>}}

\* -------------------------------------------------------- the script
\* `not GOOGLE_API_KEY`
KeyMissing_NoneOnly(key) == ~key.set

KeyMissing(key) == ~key.set \/ key.val = <<>>

EmptyCache == [hit |-> FALSE, embeddings |-> <<>>, chunks |-> <<>>]

\* lines 24-25: if isinstance(chunks, dict) and "chunks" in chunks
UnwrapChunks(doc) ==
  IF doc.t = "obj" /\ "chunks" \in DOMAIN doc.f THEN doc.f.chunks.a ELSE doc.a

\* body of load_data; open() or json.load() raising is data_ok = FALSE
load_data ==
  IF files.data_ok
  THEN [raised |-> FALSE, embeddings |-> files.embeddings,
        chunks |-> UnwrapChunks(files.chunks)]
  ELSE [raised |-> TRUE, embeddings |-> <<>>, chunks |-> <<>>]

\* @st.cache_resource: the body runs on a miss and only a returned value is stored
CachedCall_NeverHits(cache) == FALSE

CachedCall(cache) == cache.hit

\* joined context string of line 80, one element per "[Context i - Similarity: s]\nchunk" block
Context(pairs) ==
  [i \in 1..Len(pairs) |-> [n |-> i, score |-> pairs[i].score, chunk |-> pairs[i].chunk]]

Append_Overwrite(history, turn) == <<turn>>

AppendTurn(history, turn) == Append(history, turn)

NoCall == [q |-> Zero, k |-> 0]

ZeroCounts == [runs |-> 0, error_shown |-> 0, load_data |-> 0, load_model |-> 0,
               form_shown |-> 0, encode |-> 0, rank |-> 0, post |-> 0]

Bump(c, fields) == [f \in DOMAIN c |-> IF f \in fields THEN c[f] + 1 ELSE c[f]]

Ran(path, submitted, query, outcome) ==
  [path |-> path, submitted |-> submitted, query |-> query, outcome |-> outcome,
   before |-> chat_history]

Init ==
  /\ GOOGLE_API_KEY \in KeyValues
  /\ files \in DeployedFiles
  /\ data_cache = EmptyCache
  /\ model_cache = FALSE
  /\ embeddings = <<>>
  /\ chunks = <<>>
  /\ embedder = FALSE
  /\ has_history = FALSE
  /\ chat_history = <<>>
  /\ call = NoCall
  /\ top_k_idx = <<>>
  /\ top_chunks = <<>>
  /\ lastRun = [path |-> "none", submitted |-> FALSE, query |-> <<>>,
                outcome |-> NoOutcome, before |-> <<>>]
  /\ counts = ZeroCounts

\* One execution of the script, top to bottom.  submitted and query are the
\* form's values for this run; what the HTTP call does is chosen where the
\* call is made.
ScriptRun(submitted, query) ==
  /\ counts.runs < MaxRuns
  /\ submitted => counts.form_shown > 0      \* the button exists only once the form was drawn
  /\ UNCHANGED <<GOOGLE_API_KEY, files>>
  /\ IF KeyMissing(GOOGLE_API_KEY)
     THEN \* lines 13-15: st.error, st.stop
          /\ lastRun' = Ran("stopped", submitted, query, NoOutcome)
          /\ counts' = Bump(counts, {"runs", "error_shown"})
          /\ UNCHANGED <<data_cache, model_cache, embeddings, chunks, embedder,
                         has_history, chat_history, call, top_k_idx, top_chunks>>
     ELSE
     LET dataHit == CachedCall(data_cache)
         ld == IF dataHit THEN [raised |-> FALSE, embeddings |-> data_cache.embeddings,
                                chunks |-> data_cache.chunks]
               ELSE load_data
         c1 == IF dataHit THEN counts ELSE Bump(counts, {"load_data"})
     IN
     IF ld.raised
     THEN \* line 28 raises: the run ends, nothing is cached
          /\ lastRun' = Ran("load_data_raised", submitted, query, NoOutcome)
          /\ counts' = Bump(c1, {"runs"})
          /\ UNCHANGED <<data_cache, model_cache, embeddings, chunks, embedder,
                         has_history, chat_history, call, top_k_idx, top_chunks>>
     ELSE
     LET modelHit == CachedCall([hit |-> model_cache])
         modelRaised == ~modelHit /\ ~files.model_ok
         c2 == IF modelHit THEN c1 ELSE Bump(c1, {"load_model"})
     IN
     /\ data_cache' = [hit |-> TRUE, embeddings |-> ld.embeddings, chunks |-> ld.chunks]
     /\ embeddings' = ld.embeddings
     /\ chunks' = ld.chunks
     /\ IF modelRaised
        THEN \* line 35 raises
             /\ lastRun' = Ran("load_model_raised", submitted, query, NoOutcome)
             /\ counts' = Bump(c2, {"runs"})
             /\ UNCHANGED <<model_cache, embedder, has_history, chat_history,
                            call, top_k_idx, top_chunks>>
        ELSE
        /\ model_cache' = TRUE
        /\ embedder' = TRUE
        /\ has_history' = TRUE                       \* lines 69-70
        /\ IF ~(submitted /\ Strip(query) # <<>>)    \* line 76
           THEN /\ lastRun' = Ran("idle", submitted, query, NoOutcome)
                /\ counts' = Bump(c2, {"runs", "form_shown"})
                /\ UNCHANGED <<chat_history, call, top_k_idx, top_chunks>>
           ELSE
           \E r \in get_top_k_chunks(Encode(query), DefaultK)', outcome \in HttpOutcomes :
             LET answer == ask_gemini(outcome)
             IN /\ call' = [q |-> Encode(query), k |-> DefaultK]
                /\ top_k_idx' = r.idx
                /\ top_chunks' = r.pairs
                /\ IF answer.raised
                   THEN \* the exception leaves the script; line 85 is not reached
                        /\ lastRun' = Ran("ask_raised", submitted, query, outcome)
                        /\ UNCHANGED chat_history
                   ELSE /\ lastRun' = Ran("answered", submitted, query, outcome)
                        /\ chat_history' = AppendTurn(chat_history,
                                             [question |-> query, answer |-> answer.text,
                                              context |-> Context(r.pairs)])
                /\ counts' = Bump(c2, {"runs", "form_shown", "encode", "rank", "post"})

Next == \E submitted \in BOOLEAN, query \in Queries : ScriptRun(submitted, query)

Spec == Init /\ [][Next]_vars

\* ------------------------------------------- the ranker on its own
\* The state a first run leaves behind when the key is set and both loads
\* succeed, for every aligned corpus; then get_top_k_chunks is called with
\* every query vector and every positive k.
InitRank ==
  \E c \in Corpora :
    /\ GOOGLE_API_KEY = [set |-> TRUE, val |-> <<"K">>]
    /\ files = [data_ok |-> TRUE, model_ok |-> TRUE, embeddings |-> c.embeddings,
                chunks |-> JArr(c.chunks)]
    /\ data_cache = [hit |-> TRUE, embeddings |-> c.embeddings, chunks |-> c.chunks]
    /\ model_cache = TRUE
    /\ embeddings = c.embeddings
    /\ chunks = c.chunks
    /\ embedder = TRUE
    /\ has_history = TRUE
    /\ chat_history = <<>>
    /\ call = NoCall
    /\ top_k_idx = <<>>
    /\ top_chunks = <<>>
    /\ lastRun = [path |-> "idle", submitted |-> FALSE, query |-> <<>>,
                  outcome |-> NoOutcome, before |-> <<>>]
    /\ counts = Bump(ZeroCounts, {"runs", "load_data", "load_model", "form_shown"})

GetTopK(query_embedding, k) ==
  /\ call = NoCall        \* the function is pure: one call per corpus and argument pair
  /\ \E r \in get_top_k_chunks(query_embedding, k) :
       /\ top_k_idx' = r.idx
       /\ top_chunks' = r.pairs
  /\ call' = [q |-> query_embedding, k |-> k]
  /\ UNCHANGED <<GOOGLE_API_KEY, files, data_cache, model_cache, embeddings, chunks,
                 embedder, has_history, chat_history, lastRun, counts>>

NextRank == \E q \in Vectors, k \in 1..MaxK : GetTopK(q, k)

SpecRank == InitRank /\ [][NextRank]_vars

\* ================================================================ claims
Turned(outcome) == outcome.kind = "response"

NonZeroInputs == call.q # Zero /\ \A i \in 1..Len(embeddings) : embeddings[i] # Zero

Injective(s) == \A i, j \in 1..Len(s) : s[i] = s[j] => i = j

Range(s) == {s[i] : i \in 1..Len(s)}

\* C1: whatever the HTTP call does (well-formed 200, malformed 200,
\* unparseable 200, non-200, timeout, network failure), ask_gemini returns a
\* text or a labeled error string and never lets an exception escape.
C1_AskGeminiNeverRaises == lastRun.path # "ask_raised"

\* C2: when the service answers a non-blank submission with a non-200 status
\* s, the answer recorded for the turn contains the decimal digits of s and
\* history has grown by exactly one turn.
C2_StatusErrorRecorded ==
  (Turned(lastRun.outcome) /\ lastRun.outcome.status # 200) =>
     /\ Len(chat_history) = Len(lastRun.before) + 1
     /\ Contains(Last(chat_history).answer, Digits(lastRun.outcome.status))
     /\ Last(chat_history).question = lastRun.query

C2_Witness ==
  /\ lastRun.outcome.status = 500
  /\ Len(chat_history) = 2
  /\ chat_history[2].answer = <<"[Error: Gemini API returned ", "5", "0", "0", "]">>

\* C3: when the service answers 200 with a parseable body that lacks one of
\* candidates / [0] / content / parts / [0] / text, the turn's answer is the
\* "unexpected format" error string and the turn is appended to history.
C3_MalformedBodyRecorded ==
  (Turned(lastRun.outcome) /\ lastRun.outcome.status = 200
     /\ lastRun.outcome.body \in MalformedBodies) =>
     /\ lastRun.path = "answered"
     /\ chat_history = Append(lastRun.before,
                              [question |-> lastRun.query, answer |-> FormatError,
                               context |-> Last(chat_history).context])

C3_Witness ==
  /\ lastRun.outcome.status = 200
  /\ lastRun.outcome.body = "empty_parts"
  /\ lastRun.path = "answered"
  /\ Len(chat_history) = 1

\* C4: history is append-only across every script run, failed generation
\* calls included: the old history is a prefix of the new one, the loaded
\* corpus does not change, and a run whose generation call succeeds appends
\* its turn as the last one.
C4_HistoryAppendOnly ==
  [][/\ IsPrefix(chat_history, chat_history')
     /\ data_cache.hit => (data_cache' = data_cache /\ embeddings' = embeddings
                             /\ chunks' = chunks)
     /\ (Turned(lastRun'.outcome) /\ lastRun'.outcome.status = 200
           /\ lastRun'.outcome.body = "well_formed") =>
          /\ Len(chat_history') = Len(chat_history) + 1
          /\ Last(chat_history').question = lastRun'.query
          /\ Last(chat_history').answer = GeneratedText]_vars

\* a successful turn recorded after a call that raised
C4_Witness ==
  /\ counts.post = 2
  /\ Len(chat_history) = 1
  /\ lastRun.path = "answered"
  /\ lastRun.outcome.body = "well_formed"
  /\ chat_history[1].answer = GeneratedText

\* C5: for positive K and a corpus of n entries (no zero vector),
\* get_top_k_chunks returns exactly min(K, n) entries, and no corpus index
\* occurs twice among them.
C5_TopKSize ==
  (call.k > 0 /\ NonZeroInputs) =>
     /\ Len(top_chunks) = Min(call.k, Len(embeddings))
     /\ Len(top_k_idx) = Len(top_chunks)
     /\ Injective(top_k_idx)
     /\ Range(top_k_idx) \subseteq 1..Len(embeddings)

C5_Witness ==
  /\ NonZeroInputs
  /\ call.k = 2
  /\ Len(embeddings) = 3
  /\ Len(top_chunks) = 2

\* C6: with no zero vector, the returned pairs are in non-increasing score
\* order, no entry left out scores strictly higher than a returned one, and
\* each pair is the chunk text and score of one corpus index; embeddings
\* [1,0],[0,1],[1,1] with chunks A,B,C and query [1,0] give top-2 = A, C.
C6_TopKRanked ==
  (call.k > 0 /\ NonZeroInputs) =>
     /\ \A j \in 1..(Len(top_chunks) - 1) :
          FloatLeq(top_chunks[j + 1].score, top_chunks[j].score)
     /\ \A i \in (1..Len(embeddings)) \ Range(top_k_idx) :
          \A j \in 1..Len(top_chunks) :
            ~FloatLess(top_chunks[j].score, cosine_similarity(call.q, embeddings[i]))
     /\ \A j \in 1..Len(top_chunks) :
          /\ top_chunks[j].score = cosine_similarity(call.q, embeddings[top_k_idx[j]])
          /\ top_chunks[j].chunk =
               (IF chunks[top_k_idx[j]].kind = "str" \/ chunks[top_k_idx[j]].has
                THEN chunks[top_k_idx[j]].text ELSE "")
     /\ (embeddings = ExampleEmbeddings /\ chunks = StrChunks(3)
           /\ call = [q |-> <<1, 0>>, k |-> 2]) =>
          top_chunks = <<[chunk |-> "A", score |-> [nan |-> FALSE, dot |-> 1, den |-> 1]],
                         [chunk |-> "C", score |-> [nan |-> FALSE, dot |-> 1, den |-> 2]]>>

C6_Witness ==
  /\ embeddings = ExampleEmbeddings
  /\ chunks = StrChunks(3)
  /\ call = [q |-> <<1, 0>>, k |-> 2]
  /\ top_k_idx = <<1, 3>>

\* C7 as claimed: the bodies of load_data and load_model each run at most
\* once in a process lifetime.
C7_LoadBodiesRunAtMostOnce == counts.load_data <= 1 /\ counts.load_model <= 1

\* C7 as amended: once a load has returned, its body never runs again and
\* the cached embeddings and chunks never change; every run that gets past
\* the load works on the cached copy.
C7_LoadedOnceAfterSuccess ==
  [][/\ data_cache.hit => (counts'.load_data = counts.load_data /\ data_cache' = data_cache)
     /\ model_cache => (counts'.load_model = counts.load_model /\ model_cache')
     /\ data_cache'.hit => (embeddings' = data_cache'.embeddings
                              /\ chunks' = data_cache'.chunks)
     /\ counts'.rank > counts.rank => (data_cache'.hit /\ model_cache')]_vars

C7_Witness ==
  /\ counts.rank = 2
  /\ counts.load_data = 1
  /\ counts.load_model = 1
  /\ data_cache.hit

\* C8: with GOOGLE_API_KEY unset or empty, every run reports the missing
\* key and stops: nothing is loaded, the form is never shown, nothing is
\* embedded, ranked or sent, and history is never created or changed.
C8_MissingKeyStops ==
  (~GOOGLE_API_KEY.set \/ GOOGLE_API_KEY.val = <<>>) =>
     /\ counts.load_data = 0 /\ counts.load_model = 0
     /\ counts.form_shown = 0
     /\ counts.encode = 0 /\ counts.rank = 0 /\ counts.post = 0
     /\ ~data_cache.hit /\ ~model_cache /\ ~embedder
     /\ ~has_history /\ chat_history = <<>>
     /\ counts.error_shown = counts.runs
     /\ lastRun.path \in {"none", "stopped"}

C8_Witness ==
  /\ GOOGLE_API_KEY.set
  /\ GOOGLE_API_KEY.val = <<>>
  /\ counts.runs = 2
  /\ lastRun.path = "stopped"

\* C9: a zero-norm argument gives cosine_similarity a defined result, never
\* NaN, so top-K over such inputs still comes back in non-increasing score
\* order.
C9_ZeroNormDefined ==
  call.k > 0 =>
     /\ \A j \in 1..Len(top_chunks) : ~top_chunks[j].score.nan
     /\ \A j \in 1..(Len(top_chunks) - 1) :
          FloatLeq(top_chunks[j + 1].score, top_chunks[j].score)

\* C10: a submission whose text is empty or all whitespace embeds nothing,
\* ranks nothing, sends nothing and leaves history alone; a submission that
\* completes sends exactly one request and appends exactly one turn, and
\* history grows in no other run.
C10_BlankIsNoOp ==
  [][/\ (lastRun'.submitted /\ \A i \in 1..Len(lastRun'.query) : lastRun'.query[i] = " ") =>
          /\ chat_history' = chat_history
          /\ counts'.encode = counts.encode
          /\ counts'.rank = counts.rank
          /\ counts'.post = counts.post
     /\ lastRun'.path = "answered" =>
          /\ counts'.post = counts.post + 1
          /\ counts'.encode = counts.encode + 1
          /\ lastRun'.submitted
          /\ \E i \in 1..Len(lastRun'.query) : lastRun'.query[i] # " "
     /\ Len(chat_history') = Len(chat_history) + (IF lastRun'.path = "answered" THEN 1 ELSE 0)]_vars

C10_Witness ==
  /\ lastRun.submitted
  /\ lastRun.query = <<" ">>
  /\ lastRun.path = "idle"
  /\ Len(chat_history) = 1
====
